---- MODULE Spec2Model ----
(***************************************************************************)
(* Model of the market-data proxy of gringottstradingpitch: the series     *)
(* endpoints of server/routes.ts (intraday, daily, weekly, monthly) with   *)
(* their synthetic generators and fallbacks, the chart of                  *)
(* client/src/components/StockChart.tsx that consumes them, the news,      *)
(* search and quote endpoints, the header's search box, the quote loops of *)
(* the watchlist, portfolio and top-movers components, and the portfolio   *)
(* and watchlist routes over the in-memory store of server/storage.ts.     *)
(*                                                                         *)
(* Numbers.  A JavaScript number that holds a price is modelled as an      *)
(* integer count of 1/10000 dollar; every product with a decimal factor is *)
(* rounded down to that resolution, the way the double arithmetic rounds   *)
(* each product to its own resolution.  A decimal string is modelled by    *)
(* the number it denotes, so toFixed(2) is the rounding to a multiple of   *)
(* 100 units.  A field of a provider bar that is absent is modelled as 0:  *)
(* every place of the code that reads one (x || d, x?.toString() || "0")   *)
(* treats undefined and 0 alike.  The fields of a provider quote are       *)
(* modelled as JavaScript values: undefined, a number, NaN or a string.    *)
(*                                                                         *)
(* Time.  An instant is a count of minutes since 1970-01-01T00:00Z, a day  *)
(* a count of days since then; the process time zone is UTC.  A timestamp  *)
(* string is modelled by the tuple of its fields: <<y, m, d>> for          *)
(* "YYYY-MM-DD" and <<y, m, d, h, mi>> for "YYYY-MM-DD HH:MM:SS" (the      *)
(* seconds of a series are those of the request and are left out).         *)
(***************************************************************************)
EXTENDS Integers, Sequences, FiniteSets, TLC

\* ------------------------------------------------------------ bounds

\* request days: BaseDay .. BaseDay + MaxDayOffset
MaxDayOffset == 4
\* the provider's historical result holds at most MaxBars bars
MaxBars == 2
\* Math.random() yields r / RandLevels, r in 0 .. RandLevels - 1
RandLevels == 4
\* a provider search result holds at most MaxNews news items
MaxNews == 3
\* a provider search result holds at most MaxMatches quotes
MaxMatches == 2
\* a quote loop runs over at most MaxList symbols
MaxList == 3
\* at most MaxCreates stocks are created in a collection
MaxCreates == 2

\* ------------------------------------------------------------ arithmetic

Max(S) == CHOOSE x \in S : \A y \in S : y <= x

Min(S) == CHOOSE x \in S : \A y \in S : x <= y

\* x * n / d rounded down, without an intermediate product beyond 2^31
MulFrac(x, n, d) == (x \div d) * n + ((x % d) * n) \div d

\* Number.prototype.toFixed(2): the nearest multiple of 0.01, the larger of two
ToFixed2(x) == ((x + 50) \div 100) * 100

\* Math.floor of a quotient
FloorDiv(x, d) == x \div d

\* ------------------------------------------------------------ dates

\* days since 1970-01-01 of a proleptic Gregorian date (MakeDay of ECMAScript)
DaysFromCivil(y, m, d) ==
    LET yy  == IF m <= 2 THEN y - 1 ELSE y
        era == yy \div 400
        yoe == yy - era * 400
        mp  == (m + 9) % 12
        doy == (153 * mp + 2) \div 5 + d - 1
        doe == yoe * 365 + yoe \div 4 - yoe \div 100 + doy
    IN  era * 146097 + doe - 719468

\* the date <<y, m, d>> of a day number (YearFromTime, MonthFromTime, DateFromTime)
CivilFromDays(z) ==
    LET zz  == z + 719468
        era == zz \div 146097
        doe == zz - era * 146097
        yoe == (doe - doe \div 1460 + doe \div 36524 - doe \div 146096) \div 365
        doy == doe - (365 * yoe + yoe \div 4 - yoe \div 100)
        mp  == (5 * doy + 2) \div 153
        d   == doy - (153 * mp + 2) \div 5 + 1
        m   == IF mp < 10 THEN mp + 3 ELSE mp - 9
        y   == yoe + era * 400
    IN  << IF m <= 2 THEN y + 1 ELSE y, m, d >>

\* Date.prototype.getDay: 0 is Sunday, 6 is Saturday
GetDay(day) == (day + 4) % 7

DayOf(t) == t \div 1440

MinuteOfDay(t) == t % 1440

\* date.toISOString().split('T')[0]
IsoDate(t) == CivilFromDays(DayOf(t))

\* date.toISOString().replace('T', ' ').split('.')[0]
IsoDateTime(t) ==
    CivilFromDays(DayOf(t)) \o << MinuteOfDay(t) \div 60, MinuteOfDay(t) % 60 >>

\* new Date(string): the instant a timestamp string denotes
ParseDate(s) ==
    DaysFromCivil(s[1], s[2], s[3]) * 1440
      + (IF Len(s) > 3 THEN s[4] * 60 + s[5] ELSE 0)

\* date.setDate(date.getDate() - n)
SetDateBack(t, n) == t - n * 1440

\* date.setMonth(date.getMonth() - n): the day of the month is kept and a day
\* past the end of the target month runs over into the next month
SetMonthBack(t, n) ==
    LET c  == CivilFromDays(DayOf(t))
        mi == (c[1] * 12 + (c[2] - 1)) - n
    IN  (DaysFromCivil(mi \div 12, (mi % 12) + 1, 1) + (c[3] - 1)) * 1440
          + MinuteOfDay(t)

\* date.setFullYear(date.getFullYear() - n)
SetYearBack(t, n) == SetMonthBack(t, 12 * n)

\* date.setMinutes(date.getMinutes() - n)
SetMinutesBack(t, n) == t - n

\* ------------------------------------------------------------ JavaScript values

\* A string is modelled by what it spells: the decimal rendering of the
\* number num (kind "decimal"), or a text that spells no number (kind
\* "text"; its text may be empty).
Decimal(n) == [kind |-> "decimal", num |-> n, text |-> ""]

Text(s) == [kind |-> "text", num |-> 0, text |-> s]

\* A provider field is undefined, a number (finite, or NaN) or a string; a
\* number is held as its rendering.
JsUndefined == [type |-> "undefined", str |-> Text("undefined")]

JsNumber(n) == [type |-> "number", str |-> Decimal(n)]

JsNaN == [type |-> "number", str |-> Text("NaN")]

JsString(s) == [type |-> "string", str |-> s]

\* the truthiness of a value: undefined, 0, NaN and "" are falsy
Truthy(v) ==
    CASE v.type = "undefined" -> FALSE
      [] v.type = "number"    -> v.str.kind = "decimal" /\ v.str.num # 0
      [] OTHER                -> v.str # Text("")

\* v?.toString() || "0"
StringOrZero(v) ==
    IF v.type = "undefined" \/ v.str = Text("") THEN Decimal(0) ELSE v.str

\* the number part of `${(v || 0) * 100}%`: a string operand is converted to
\* the number it spells, and to NaN when it spells none
TimesHundred(v) ==
    IF ~Truthy(v) THEN Decimal(0)
    ELSE IF v.str.kind = "decimal" THEN Decimal(v.str.num * 100)
    ELSE Text("NaN")

\* ------------------------------------------------------------ provider

\* Wednesday 2024-01-31: the request days hold a 31st, working days and a
\* weekend
BaseDay == DaysFromCivil(2024, 1, 31)

RequestDays == BaseDay .. BaseDay + MaxDayOffset

\* minutes of the day at which a request is made
RequestTimes == {5, 870}

Symbol == "AAPL"

NoQuote == [found |-> FALSE]

\* provider quotes: regularMarketPrice 0 (absent), 0.15, 0.60 and 150 dollars
Prices == {0, 1500, 6000, 1500000}

Quotes ==
    {[found |-> TRUE, regularMarketPrice |-> p,
      regularMarketVolume |-> IF p = 6000 THEN 0 ELSE 4800000] : p \in Prices}

\* the fields of a provider bar but its date: a full bar and one with absent
\* fields
FullBar ==
    [open |-> 1495000, high |-> 1510000, low |-> 1494000, close |-> 1500000,
     volume |-> 960000]

SparseBar == [open |-> 0, high |-> 0, low |-> 0, close |-> 9900, volume |-> 0]

\* the age, in periods, of a bar older than the daily endpoint's window
OldLag == 2 * 30

\* what the provider holds for the symbol: n bars, the last one dated lag
\* periods before the request
Worlds ==
    ([n : 0 .. MaxBars, lag : {0, 1}] \ {[n |-> 0, lag |-> 1]})
      \cup {[n |-> 1, lag |-> OldLag]}

\* the quote and history the provider may hold together
Holdings ==
    {h \in [quote : Quotes \cup {NoQuote}, world : Worlds] :
        h.world.n > 0 => (~h.quote.found \/ h.quote.regularMarketPrice = 1500000)}

Endpoints == {"intraday", "daily", "weekly", "monthly"}

\* the instant k periods of the endpoint's provider interval before t
PeriodBack(endpoint, t, k) ==
    CASE endpoint = "weekly"  -> SetDateBack(t, 7 * k)
      [] endpoint = "monthly" -> SetMonthBack(t, k)
      [] OTHER                -> SetDateBack(t, k)

\* the bars the provider holds for the symbol at the endpoint's interval, in
\* ascending date order, each dated at midnight
ProviderHeld(endpoint, world, t) ==
    [j \in 1 .. world.n |->
        LET shape == IF j % 2 = 1 THEN FullBar ELSE SparseBar
        IN  [date   |-> DayOf(PeriodBack(endpoint, t, world.lag + (world.n - j))) * 1440,
             open   |-> shape.open,
             high   |-> shape.high,
             low    |-> shape.low,
             close  |-> shape.close,
             volume |-> shape.volume]]

\* period1 of the handler's historical request: the last 10 days, 30 days,
\* year or 5 years
Period1(endpoint, t) ==
    CASE endpoint = "intraday" -> SetDateBack(t, 10)
      [] endpoint = "daily"    -> SetDateBack(t, 30)
      [] endpoint = "weekly"   -> SetYearBack(t, 1)
      [] endpoint = "monthly"  -> SetYearBack(t, 5)

\* yahooFinance.historical(symbol, {period1, period2, interval}): the held
\* bars from period1 to period2
ProviderHistorical(endpoint, world, t) ==
    SelectSeq(ProviderHeld(endpoint, world, t),
              LAMBDA bar : Period1(endpoint, t) <= bar.date /\ bar.date <= t)

\* ------------------------------------------------------------ series endpoints

\* ContainerName with the daily handler writing the weekly container
MutContainerName(endpoint) ==
    CASE endpoint = "intraday" -> "Time Series (5min)"
      [] endpoint = "daily"    -> "Weekly Time Series"
      [] endpoint = "weekly"   -> "Weekly Time Series"
      [] endpoint = "monthly"  -> "Monthly Time Series"

\* the container each endpoint puts its series in
ContainerName(endpoint) ==
    CASE endpoint = "intraday" -> "Time Series (5min)"
      [] endpoint = "daily"    -> "Time Series (Daily)"
      [] endpoint = "weekly"   -> "Weekly Time Series"
      [] endpoint = "monthly"  -> "Monthly Time Series"

\* "1. Information" of the Meta Data built in the try block
Information(endpoint) ==
    CASE endpoint = "intraday" -> "Intraday Time Series (substitute with daily)"
      [] endpoint = "daily"    -> "Daily Time Series"
      [] endpoint = "weekly"   -> "Weekly Time Series"
      [] endpoint = "monthly"  -> "Monthly Time Series"

\* "1. Information" of the Meta Data built in the catch block
FallbackInformation(endpoint) ==
    CASE endpoint = "intraday" -> "Intraday Time Series with 5min interval"
      [] endpoint = "daily"    -> "Daily Time Series"
      [] endpoint = "weekly"   -> "Weekly Time Series"
      [] endpoint = "monthly"  -> "Monthly Time Series"

EmptySeries == << >>

\* the object a loop fills by container[key] = candle; writes holds one
\* << loop index, key, candle >> per iteration, and a later write to a key
\* replaces the earlier one
BuildSeries(writes) ==
    [k \in {w[2] : w \in writes} |->
        LET last == Max({w[1] : w \in {x \in writes : x[2] = k}})
        IN  (CHOOSE w \in writes : w[1] = last)[3]]

\* x?.toString() || "0" of a bar's field, a number or absent (0): the
\* number the string spells
NumToString(x) == StringOrZero(JsNumber(x)).num

\* the candle of one provider bar (daily, weekly and monthly endpoints)
NormalizeBar(bar) ==
    [open   |-> NumToString(bar.open),
     high   |-> NumToString(bar.high),
     low    |-> NumToString(bar.low),
     close  |-> NumToString(bar.close),
     volume |-> NumToString(bar.volume)]

\* historicalData.forEach(bar => container[bar.date ISO date] = candle)
NormalizeBars(bars) ==
    BuildSeries({<< j, IsoDate(bars[j].date), NormalizeBar(bars[j]) >> :
                    j \in DOMAIN bars})

\* ------------------------------------------------------------ synthetic series

IntradayBuckets == 96
DailyBuckets == 30
WeeklyBuckets == 52
MonthlyBuckets == 60

\* 1000 * Math.sin(i / 10) for i = 0 .. 95, rounded
SinTenth ==
    << 0, 100, 199, 296, 389, 479, 565, 644, 717, 783, 841, 891, 932, 964, 985,
       997, 1000, 992, 974, 946, 909, 863, 808, 746, 675, 598, 516, 427, 335,
       239, 141, 42, -58, -158, -256, -351, -443, -530, -612, -688, -757, -818,
       -872, -916, -952, -978, -994, -1000, -996, -982, -959, -926, -883, -832,
       -773, -706, -631, -551, -465, -374, -279, -182, -83, 17, 117, 215, 312,
       405, 494, 578, 657, 729, 794, 850, 899, 938, 968, 988, 999, 999, 989,
       970, 941, 902, 855, 798, 734, 663, 585, 501, 412, 319, 223, 124, 25,
       -75 >>

\* the streams Math.random() can produce: the k-th draw (k = 0, 1, ...) of the
\* stream named seed, as a numerator over RandLevels; the first RandLevels
\* streams are constant, the others step through the levels, one level
\* every two draws
RandSeeds == 0 .. RandLevels + 1

Rand(seed, k) ==
    IF seed < RandLevels THEN seed ELSE (seed + (k + 1) \div 2) % RandLevels

\* x * (1 + (Math.random() - 0.5) * pct / 100) for the draw r / RandLevels
Jitter(x, r, pct) ==
    MulFrac(x, 200 * RandLevels + (2 * r - RandLevels) * pct, 200 * RandLevels)

\* quote.regularMarketPrice || 100
CurrentPrice(q) ==
    IF q.regularMarketPrice = 0 THEN 1000000 ELSE q.regularMarketPrice

\* a candle as serialized: every price through toFixed(2)
Fixed2Candle(prices, volume) ==
    [open   |-> ToFixed2(prices.open),
     high   |-> ToFixed2(prices.high),
     low    |-> ToFixed2(prices.low),
     close  |-> ToFixed2(prices.close),
     volume |-> volume]

\* the prices of bucket i of the intraday generator, before toFixed
IntradayPrices(q, i) ==
    LET currentPrice   == CurrentPrice(q)
        priceVariation == MulFrac(currentPrice, SinTenth[i + 1], 100000)
        adjustedPrice  == currentPrice + priceVariation
    IN  [open  |-> adjustedPrice - 1000,
         high  |-> adjustedPrice + 2000,
         low   |-> adjustedPrice - 2000,
         close |-> adjustedPrice]

\* the candle of bucket i of the intraday generator
IntradayCandle(q, i) ==
    LET volume == IF q.regularMarketVolume = 0 THEN 1000
                  ELSE q.regularMarketVolume
    IN  Fixed2Candle(IntradayPrices(q, i), FloorDiv(volume, IntradayBuckets))

\* for (i = 0; i < 96; i++): one candle every 5 minutes back from now
IntradaySynthetic(q, t) ==
    BuildSeries({<< i, IsoDateTime(SetMinutesBack(t, i * 5)), IntradayCandle(q, i) >> :
                    i \in 0 .. IntradayBuckets - 1})

\* the number of buckets and the coefficients of the daily, weekly and
\* monthly generators: drift per bucket in 1/1000, noise span in percent,
\* high/low band in percent, volume base and volume span in percent
GenParams(endpoint) ==
    CASE endpoint = "daily" ->
           [count |-> DailyBuckets, drift |-> 2, noise |-> 2, band |-> 1,
            volume |-> 1000000, span |-> 30]
      [] endpoint = "weekly" ->
           [count |-> WeeklyBuckets, drift |-> 1, noise |-> 3, band |-> 2,
            volume |-> 5000000, span |-> 40]
      [] endpoint = "monthly" ->
           [count |-> MonthlyBuckets, drift |-> 4, noise |-> 5, band |-> 4,
            volume |-> 20000000, span |-> 50]

\* the date of bucket i: setDate(-i), setDate(-7 i), setMonth(-i)
BucketTime(endpoint, t, i) == PeriodBack(endpoint, t, i)

\* SkipBucket that skips Sundays only
MutSkipBucket(endpoint, t, i) ==
    /\ endpoint = "daily"
    /\ GetDay(DayOf(PeriodBack(endpoint, t, i))) = 0

\* if (date.getDay() === 0 || date.getDay() === 6) continue, daily only
SkipBucket(endpoint, t, i) ==
    /\ endpoint = "daily"
    /\ GetDay(DayOf(BucketTime(endpoint, t, i))) \in {0, 6}

\* the draws taken before bucket i: two for each bucket that was not skipped
DrawsBefore(endpoint, t, i) ==
    2 * Cardinality({j \in 0 .. i - 1 : ~SkipBucket(endpoint, t, j)})

\* AdjustedPrice with the drift taken per 100 instead of per 1000
MutAdjustedPrice(endpoint, q, i, r) ==
    Jitter(MulFrac(CurrentPrice(q), 100 - i * GenParams(endpoint).drift, 100), r,
           GenParams(endpoint).noise)

\* adjustedPrice of bucket i: currentPrice * factor * (1 + noise)
AdjustedPrice(endpoint, q, i, r) ==
    LET g == GenParams(endpoint)
    IN  Jitter(MulFrac(CurrentPrice(q), 1000 - i * g.drift, 1000), r, g.noise)

\* BucketPrices with the open taken above the close by the band
MutBucketPrices(endpoint, q, i, r) ==
    [open  |-> MulFrac(AdjustedPrice(endpoint, q, i, r), 1005, 1000),
     high  |-> MulFrac(AdjustedPrice(endpoint, q, i, r),
                       10000 + GenParams(endpoint).band, 10000),
     low   |-> MulFrac(AdjustedPrice(endpoint, q, i, r),
                       100 - GenParams(endpoint).band, 100),
     close |-> AdjustedPrice(endpoint, q, i, r)]

\* the prices of bucket i of the daily, weekly and monthly generators for the
\* noise draw r, before toFixed
BucketPrices(endpoint, q, i, r) ==
    LET g == GenParams(endpoint)
        adjustedPrice == AdjustedPrice(endpoint, q, i, r)
    IN  [open  |-> MulFrac(adjustedPrice, 9995, 10000),
         high  |-> MulFrac(adjustedPrice, 100 + g.band, 100),
         low   |-> MulFrac(adjustedPrice, 100 - g.band, 100),
         close |-> adjustedPrice]

\* the candle of bucket i of the daily, weekly and monthly generators
BucketCandle(endpoint, q, t, i, seed) ==
    LET g == GenParams(endpoint)
        k == DrawsBefore(endpoint, t, i)
    IN  Fixed2Candle(BucketPrices(endpoint, q, i, Rand(seed, k)),
                     Jitter(g.volume, Rand(seed, k + 1), g.span))

\* for (i = 0; i < count; i++): one candle per day, week or month back from now
BucketSynthetic(endpoint, q, t, seed) ==
    BuildSeries({<< i, IsoDate(BucketTime(endpoint, t, i)),
                       BucketCandle(endpoint, q, t, i, seed) >> :
                    i \in {x \in 0 .. GenParams(endpoint).count - 1 :
                              ~SkipBucket(endpoint, t, x)}})

\* ------------------------------------------------------------ intraday expansion

\* 1000 * Math.sin(dayProgress * Math.PI) for the slots 09:00, 09:05, ...,
\* 16:55, dayProgress = ((hour - 9) + min / 60) / 7, rounded
SinProgress ==
    << 0, 37, 75, 112, 149, 186, 223, 259, 295, 330, 365, 400, 434, 467, 500,
       532, 563, 594, 623, 652, 680, 707, 733, 758, 782, 805, 826, 847, 866,
       884, 901, 917, 931, 944, 956, 966, 975, 983, 989, 994, 997, 999, 1000,
       999, 997, 994, 989, 983, 975, 966, 956, 944, 931, 917, 901, 884, 866,
       847, 826, 805, 782, 758, 733, 707, 680, 652, 623, 594, 563, 532, 500,
       467, 434, 400, 365, 330, 295, 259, 223, 186, 149, 112, 75, 37, 0, -37,
       -75, -112, -149, -186, -223, -259, -295, -330, -365, -400 >>

\* the slots of one day: for i < 8, hour = 9 + i, for min = 0, 5, ..., 55,
\* numbered (hour - 9) * 12 + min / 5, without those the loop skips
\* (hour === 16 && min > 0)
Slots == {s \in 0 .. 95 : ~(9 + s \div 12 = 16 /\ (s % 12) * 5 > 0)}

\* date.setHours(hour, min) on the bar's date
SlotTime(bar, s) == DayOf(bar.date) * 1440 + (9 + s \div 12) * 60 + (s % 12) * 5

\* the candle of slot s of the bar at position dayIndex (from 0)
ExpandedCandle(bar, dayIndex, s) ==
    LET basePrice     == IF bar.close = 0 THEN 1000000 ELSE bar.close
        \* basePrice * (1 - sin * 0.005), as basePrice - basePrice * sin / 200
        adjustedPrice == basePrice + MulFrac(basePrice, -SinProgress[s + 1], 200000)
        rawOpen == IF bar.open = 0 THEN basePrice ELSE bar.open
        rawHigh == IF bar.high = 0 THEN MulFrac(basePrice, 101, 100) ELSE bar.high
        rawLow  == IF bar.low = 0 THEN MulFrac(basePrice, 99, 100) ELSE bar.low
    IN  [open   |-> ToFixed2(MulFrac(rawOpen, 1000 - dayIndex, 1000)),
         high   |-> ToFixed2(MulFrac(rawHigh, 1000 - dayIndex, 1000)),
         low    |-> ToFixed2(MulFrac(rawLow, 1000 - dayIndex, 1000)),
         close  |-> ToFixed2(adjustedPrice),
         volume |-> FloorDiv(IF bar.volume = 0 THEN 1000 ELSE bar.volume, 96)]

\* historicalData.forEach((bar, dayIndex) => ...): every bar expanded into
\* 5-minute points; the loop index of slot s of bar j is (j - 1) * 96 + s
IntradayExpansion(bars) ==
    BuildSeries({<< (j - 1) * 96 + s, IsoDateTime(SlotTime(bars[j], s)),
                       ExpandedCandle(bars[j], j - 1, s) >> :
                    j \in DOMAIN bars, s \in Slots})

\* ------------------------------------------------------------ handlers

\* the branch of the intraday handler:
\*   if (historicalData.length === 0 && quote) ... else if (historicalData.length > 0) ...
IntradayBranch(nBars, hasQuote) ==
    IF nBars = 0 /\ hasQuote THEN "synthetic"
    ELSE IF nBars > 0 THEN "real"
    ELSE "empty"

\* BucketBranch with the two tests in the other order
MutBucketBranch(nBars, hasQuote) ==
    IF hasQuote THEN "synthetic"
    ELSE IF nBars > 0 THEN "real"
    ELSE "empty"

\* the branch of the daily, weekly and monthly handlers:
\*   if (historicalData.length > 0) ... else if (quote) ...
BucketBranch(nBars, hasQuote) ==
    IF nBars > 0 THEN "real"
    ELSE IF hasQuote THEN "synthetic"
    ELSE "empty"

SeriesBranch(endpoint, nBars, hasQuote) ==
    IF endpoint = "intraday" THEN IntradayBranch(nBars, hasQuote)
    ELSE BucketBranch(nBars, hasQuote)

\* the series the try block builds on the given branch
SeriesOf(endpoint, branch, q, bars, t, seed) ==
    CASE branch = "empty" -> EmptySeries
      [] branch = "real" /\ endpoint = "intraday" -> IntradayExpansion(bars)
      [] branch = "real" /\ endpoint # "intraday" -> NormalizeBars(bars)
      [] branch = "synthetic" /\ endpoint = "intraday" -> IntradaySynthetic(q, t)
      [] branch = "synthetic" /\ endpoint # "intraday" ->
           BucketSynthetic(endpoint, q, t, seed)

\* a JSON body: a function from its top-level keys
Body(endpoint, information, series) ==
    ("Meta Data" :> [information |-> information, symbol |-> Symbol])
      @@ (ContainerName(endpoint) :> series)

\* res.json(body): status 200
Json(body) == [status |-> 200, body |-> body]

\* FallbackResponse answering as the quote and search handlers do
MutFallbackResponse(endpoint) ==
    [status |-> 500, body |-> ("message" :> "Failed to fetch stock data")]

\* the answer of the catch block of a series handler
FallbackResponse(endpoint) ==
    Json(Body(endpoint, FallbackInformation(endpoint), EmptySeries))

NoResponse == [status |-> 0]

\* ------------------------------------------------------------ chart

\* the values the timeframe prop is given; "YTD" stands for any unlisted one
Timeframes == {"1D", "1W", "1M", "3M", "1Y", "5Y", "Max", "YTD"}

\* switch (tf) { case ...: return { endpoint, interval } default: ... }
GetEndpointAndInterval(tf) ==
    CASE tf = "1D"  -> [endpoint |-> "intraday", interval |-> "5min"]
      [] tf = "1W"  -> [endpoint |-> "intraday", interval |-> "60min"]
      [] tf = "1M"  -> [endpoint |-> "daily", interval |-> ""]
      [] tf = "3M"  -> [endpoint |-> "daily", interval |-> ""]
      [] tf = "1Y"  -> [endpoint |-> "weekly", interval |-> ""]
      [] tf = "5Y"  -> [endpoint |-> "weekly", interval |-> ""]
      [] tf = "Max" -> [endpoint |-> "monthly", interval |-> ""]
      [] OTHER      -> [endpoint |-> "intraday", interval |-> "5min"]

\* the key under which the effect looks the series up in the response
TimeSeriesKey(endpoint, interval) ==
    CASE endpoint = "intraday" -> "Time Series (" \o interval \o ")"
      [] endpoint = "daily"    -> "Time Series (Daily)"
      [] endpoint = "weekly"   -> "Weekly Time Series"
      [] endpoint = "monthly"  -> "Monthly Time Series"
      [] OTHER                 -> ""

\* Object.entries(timeSeries).map(([date, values]) => point)
ChartPoints(series) ==
    {[date   |-> k,
      value  |-> series[k].close,
      open   |-> series[k].open,
      high   |-> series[k].high,
      low    |-> series[k].low,
      volume |-> series[k].volume] : k \in DOMAIN series}

\* the filter the if / else-if chain on the timeframe applies at instant t
KeepPoint(tf, t, point) ==
    CASE tf = "1D" -> SubSeq(point.date, 1, 3) = IsoDate(t)
      [] tf = "1W" -> ParseDate(point.date) >= SetDateBack(t, 7)
      [] tf = "1M" -> ParseDate(point.date) >= SetMonthBack(t, 1)
      [] tf = "3M" -> ParseDate(point.date) >= SetMonthBack(t, 3)
      [] tf = "1Y" -> ParseDate(point.date) >= SetYearBack(t, 1)
      [] tf = "5Y" -> ParseDate(point.date) >= SetYearBack(t, 5)
      [] OTHER     -> TRUE

FilterPoints(tf, t, points) == {p \in points : KeepPoint(tf, t, p)}

\* chartPoints.sort((a, b) => new Date(a.date) - new Date(b.date)); the dates
\* of the points are the keys of one object and so pairwise distinct
SortByDate(points) ==
    LET timed  == {<< ParseDate(p.date), p >> : p \in points}
        times  == {x[1] : x \in timed}
        byTime == [t \in times |-> (CHOOSE x \in timed : x[1] = t)[2]] @@ << >>
        rank   == [t \in times |-> 1 + Cardinality({u \in times : u < t})] @@ << >>
        atRank == [i \in 1 .. Cardinality(times) |->
                      CHOOSE t \in times : rank[t] = i] @@ << >>
    IN  [i \in 1 .. Cardinality(times) |-> byTime[atRank[i]]]

\* the effect on a response body: chartData is set only if the key is there
ChartDataOf(tf, endpoint, interval, t, body, old) ==
    LET key == TimeSeriesKey(endpoint, interval)
    IN  IF key \in DOMAIN body
        THEN SortByDate(FilterPoints(tf, t, ChartPoints(body[key])))
        ELSE old

\* ------------------------------------------------------------ news

\* const symbols = ['AAPL', 'MSFT', 'GOOGL', 'AMZN', 'META']
NewsSymbols == << "AAPL", "MSFT", "GOOGL", "AMZN", "META" >>

\* the news items a provider search result may hold: 0 .. MaxNews of them,
\* every second one without a title
ProviderNews(symbol, n) ==
    [j \in 1 .. n |->
        [title |-> IF j % 2 = 1 THEN "headline" ELSE "",
         link  |-> symbol \o "/" \o ToString(j)]]

\* one feed item of the transformed news
FeedItem(symbol, item) ==
    [title |-> IF item.title = "" THEN "Market News for " \o symbol
               ELSE item.title,
     url   |-> IF item.link = "" THEN "https://finance.yahoo.com" ELSE item.link,
     topic |-> symbol]

\* ((result.news || []) as any[]).slice(0, 2).map(item => ...)
FeedOf(symbol, news) ==
    [j \in 1 .. (IF Len(news) < 2 THEN Len(news) ELSE 2) |->
        FeedItem(symbol, news[j])]

\* newsResults.flatMap((result, index) => ...) over the first n results
RECURSIVE FlatMap(_, _)
FlatMap(results, n) ==
    IF n = 0 THEN << >>
    ELSE FlatMap(results, n - 1) \o FeedOf(NewsSymbols[n], results[n].news)

\* res.json(transformedNews)
TransformedNews(results) == Json([feed |-> FlatMap(results, Len(results))])

\* a catch block that answers an empty feed
MutDefaultNews == Json([feed |-> << >>])

\* res.json(defaultNews) of the catch block
DefaultNews ==
    Json([feed |-> << [title |-> "Markets Today: Wizarding Finance Update",
                       url   |-> "https://finance.yahoo.com",
                       topic |-> "Markets"] >>])

\* ------------------------------------------------------------ search endpoint

\* the q parameter of a search request
Queries == {"", "A", "AA", "AAPL"}

\* the quotes a provider search result may hold: n of them, every second
\* one with only its symbol
ProviderMatches(q, n) ==
    [j \in 1 .. n |->
        IF j % 2 = 1
        THEN [symbol |-> q, shortname |-> "", longname |-> q \o " Inc.",
              quoteType |-> "EQUITY", exchange |-> "NMS", currency |-> "EUR"]
        ELSE [symbol |-> q \o ToString(j), shortname |-> "", longname |-> "",
              quoteType |-> "", exchange |-> "", currency |-> ""]]

\* a || b on strings
OrElse(a, b) == IF a = "" THEN b ELSE a

\* one entry of bestMatches
BestMatch(quote) ==
    ("1. symbol" :> OrElse(quote.symbol, ""))
      @@ ("2. name" :> OrElse(quote.shortname, OrElse(quote.longname, "")))
      @@ ("3. type" :> OrElse(quote.quoteType, "Equity"))
      @@ ("4. region" :> OrElse(quote.exchange, "US"))
      @@ ("5. marketOpen" :> "09:30")
      @@ ("6. marketClose" :> "16:00")
      @@ ("7. timezone" :> "UTC-5")
      @@ ("8. currency" :> OrElse(quote.currency, "USD"))
      @@ ("9. matchScore" :> "1.0")

\* res.json(transformedResults)
TransformedResults(quotes) ==
    Json([bestMatches |-> [j \in DOMAIN quotes |-> BestMatch(quotes[j])]])

\* res.status(code).json({ message })
ErrorResponse(code, message) == [status |-> code, body |-> [message |-> message]]

\* if (!query) return res.status(400)...
QueryMissing(q) == q = ""

\* enabled: searchQuery.length >= 2
HeaderEnabled(q) == Len(q) >= 2

\* the fields of a match the header reads
HeaderFields == {"symbol", "name"}

\* `${match[key]}` in the header: an absent property reads undefined
Template(match, key) == IF key \in DOMAIN match THEN match[key] ELSE "undefined"

\* searchResults?.bestMatches of a response body; none in an error body
BestMatches(body) ==
    IF "bestMatches" \in DOMAIN body THEN body.bestMatches ELSE << >>

\* searchResults?.bestMatches?.[0] is there
HasFirstMatch(body) == Len(BestMatches(body)) >= 1

\* setLocation(`/stock/${searchResults.bestMatches[0].symbol}`)
SubmitLocation(body) == "/stock/" \o Template(BestMatches(body)[1], "symbol")

\* the hrefs of the dropdown: bestMatches.slice(0, 5).map(...)
DropdownLinks(body) ==
    LET matches == BestMatches(body)
        shown   == IF Len(matches) < 5 THEN Len(matches) ELSE 5
    IN  [j \in 1 .. shown |-> "/stock/" \o Template(matches[j], "symbol")]

\* ------------------------------------------------------------ quote endpoint

\* a provider quote of the given numeric fields
ProviderQuote(open, high, low, price, volume, previousClose, change, percent) ==
    [symbol                     |-> Symbol,
     regularMarketOpen          |-> open,
     regularMarketDayHigh       |-> high,
     regularMarketDayLow        |-> low,
     regularMarketPrice         |-> price,
     regularMarketVolume        |-> volume,
     regularMarketPreviousClose |-> previousClose,
     regularMarketChange        |-> change,
     regularMarketChangePercent |-> percent]

\* the quotes the provider may answer: all fields numbers (the change
\* percent as a fraction, 0.25), price and previous close without the change
\* fields, a flat market, fields that are strings or NaN, and no field at all
ProviderQuotes ==
    {ProviderQuote(JsNumber(1490000), JsNumber(1510000), JsNumber(1480000),
                   JsNumber(1500000), JsNumber(4800000), JsNumber(1200000),
                   JsNumber(300000), JsNumber(2500)),
     ProviderQuote(JsNumber(1490000), JsNumber(1510000), JsNumber(1480000),
                   JsNumber(1500000), JsNumber(4800000), JsNumber(1480000),
                   JsUndefined, JsUndefined),
     ProviderQuote(JsNumber(1500000), JsNumber(1500000), JsNumber(1500000),
                   JsNumber(1500000), JsNumber(0), JsNumber(1500000),
                   JsNumber(0), JsNumber(0)),
     ProviderQuote(JsString(Decimal(1495000)), JsString(Text("N/A")),
                   JsString(Text("")), JsNumber(1500000), JsNaN, JsUndefined,
                   JsString(Decimal(20000)), JsString(Text("N/A"))),
     ProviderQuote(JsUndefined, JsUndefined, JsUndefined, JsUndefined,
                   JsUndefined, JsUndefined, JsUndefined, JsUndefined)}

\* what yahooFinance.quote does: it resolves with a quote, resolves with
\* undefined (the symbol is not found), or rejects
QuoteOutcomes ==
    {[kind |-> "quote", quote |-> q] : q \in ProviderQuotes}
      \cup {[kind |-> k, quote |-> CHOOSE q \in ProviderQuotes : TRUE] :
               k \in {"notfound", "error"}}

\* transformedData["Global Quote"] at instant t; "10. change percent" holds
\* the string before its '%'
GlobalQuote(quote, t) ==
    ("01. symbol" :> quote.symbol)
      @@ ("02. open" :> StringOrZero(quote.regularMarketOpen))
      @@ ("03. high" :> StringOrZero(quote.regularMarketDayHigh))
      @@ ("04. low" :> StringOrZero(quote.regularMarketDayLow))
      @@ ("05. price" :> StringOrZero(quote.regularMarketPrice))
      @@ ("06. volume" :> StringOrZero(quote.regularMarketVolume))
      @@ ("07. latest trading day" :> IsoDate(t))
      @@ ("08. previous close" :> StringOrZero(quote.regularMarketPreviousClose))
      @@ ("09. change" :> StringOrZero(quote.regularMarketChange))
      @@ ("10. change percent" :> TimesHundred(quote.regularMarketChangePercent))

\* a handler that answers a symbol that is not found with a quote of zeros
MutQuoteResponse(outcome, t) ==
    CASE outcome.kind = "error" -> ErrorResponse(500, "Failed to fetch stock quote")
      [] OTHER                  ->
           Json("Global Quote" :>
                   GlobalQuote(IF outcome.kind = "quote" THEN outcome.quote
                               ELSE ProviderQuote(JsUndefined, JsUndefined,
                                                  JsUndefined, JsUndefined,
                                                  JsUndefined, JsUndefined,
                                                  JsUndefined, JsUndefined), t))

\* the answer of the quote handler to the outcome of yahooFinance.quote
QuoteResponse(outcome, t) ==
    CASE outcome.kind = "error"    -> ErrorResponse(500, "Failed to fetch stock quote")
      [] outcome.kind = "notfound" -> ErrorResponse(404, "Stock not found")
      [] OTHER                     -> Json("Global Quote" :> GlobalQuote(outcome.quote, t))

\* ------------------------------------------------------------ quote loops

\* the lists a quote loop runs over (the watchlist, the portfolio, the first
\* popular symbols): up to MaxList entries, a symbol possibly twice
LoopSymbols == {"AAPL", "MSFT"}

LoopLists == UNION {[1 .. n -> LoopSymbols] : n \in 1 .. MaxList}

\* how a fetch of /api/stocks/quote/<symbol> with response.json() ends: a
\* body with "Global Quote", a body without one (an error status), or a
\* rejection
FetchOutcomes == {"quote", "message", "rejected"}

\* the requests issued on a loop reaching iteration i
\* (symbols.map(fetch): all of them before the first await)
MutIssuedAt(list, i) == IF i = 1 THEN DOMAIN list ELSE {}

\* the requests issued on the loop reaching iteration i:
\* for (const stock of list) { ... await fetch(...) ... }
IssuedAt(list, i) == IF i \in DOMAIN list THEN {i} ELSE {}

\* the iteration the loop waits in once the requests of done have settled,
\* from iteration i on: the first whose request has not settled
RECURSIVE AwaitedFrom(_, _, _)
AwaitedFrom(list, i, done) ==
    IF i \in DOMAIN list /\ i \in done THEN AwaitedFrom(list, i + 1, done) ELSE i

\* a loop whose catch block writes null for the symbol
MutQuotesAfter(quotes, list, outcome, from, to) ==
    IF from >= to THEN quotes
    ELSE (list[from] :> (IF outcome[from] = "quote" THEN "Global Quote"
                         ELSE "null")) @@ quotes

\* quotes[stock.symbol] = data["Global Quote"] || null for the iterations
\* from .. to - 1 in order; a rejected iteration writes nothing
RECURSIVE QuotesAfter(_, _, _, _, _)
QuotesAfter(quotes, list, outcome, from, to) ==
    IF from >= to THEN quotes
    ELSE QuotesAfter(
             IF outcome[from] = "rejected" THEN quotes
             ELSE (list[from] :> (IF outcome[from] = "quote" THEN "Global Quote"
                                  ELSE "null")) @@ quotes,
             list, outcome, from + 1, to)

\* the entries of list at the indices of S, in list order
SymbolsAt(list, S) ==
    [k \in 1 .. Cardinality(S) |->
        list[CHOOSE j \in S : Cardinality({x \in S : x < j}) = k - 1]]

\* ------------------------------------------------------------ storage

\* the two collections of MemStorage behind /api/portfolio and /api/watchlist
Collections == {"portfolio", "watchlist"}

\* the stocks initializeDemo puts into a collection for the demo user, in
\* order
DemoSymbols(coll) ==
    IF coll = "portfolio" THEN << "AAPL", "MSFT", "TSLA", "AMZN" >>
    ELSE << "GOOG", "NFLX", "JPM", "DIS" >>

\* the map of a collection after the constructor: ids 1 .. 4
DemoStocks(coll) ==
    [id \in DOMAIN DemoSymbols(coll) |->
        [id |-> id, userId |-> 1, symbol |-> DemoSymbols(coll)[id]]]

\* the id counter of a collection after the constructor
DemoCounter(coll) == Len(DemoSymbols(coll)) + 1

\* an id taken from the size of the map
MutNextId(map, counter) == Cardinality(DOMAIN map) + 1

\* const id = this.portfolioStockIdCounter++
NextId(map, counter) == counter

\* createPortfolioStock / createWatchlistStock: { ...stock, id }
CreatedStock(map, counter, body) ==
    [id |-> NextId(map, counter), userId |-> body.userId, symbol |-> body.symbol]

\* this.portfolioStocks.set(id, portfolioStock)
MapSet(map, stock) == (stock.id :> stock) @@ map

\* this.portfolioStocks.delete(id): the map without the key
MapDelete(map, id) == [k \in DOMAIN map \ {id} |-> map[k]]

\* getPortfolioStocks(userId): Array.from(map.values()).filter(by userId);
\* the values come in insertion order, which is the order of the ids
StocksOf(map, userId) ==
    LET ids == {k \in DOMAIN map : map[k].userId = userId}
    IN  [i \in 1 .. Cardinality(ids) |->
            map[CHOOSE k \in ids : Cardinality({x \in ids : x < k}) = i - 1]]

\* request bodies of POST: with userId and symbol (the demo user or another
\* user), or without a required field
PostBodies ==
    {[valid |-> TRUE, userId |-> u, symbol |-> "NVDA"] : u \in {1, 2}}
      \cup {[valid |-> FALSE, userId |-> 1, symbol |-> ""]}

\* insertPortfolioStockSchema.safeParse(req.body).success
SafeParse(body) == body.valid

\* the :id of a DELETE, as its leading decimal digits and what follows them:
\* "2", "7", "abc", "2abc"
IdParams ==
    {[digits |-> << 2 >>, rest |-> ""], [digits |-> << 5 >>, rest |-> ""],
     [digits |-> << 7 >>, rest |-> ""], [digits |-> << >>, rest |-> "abc"],
     [digits |-> << 2 >>, rest |-> "abc"]}

\* the number a sequence of decimal digits spells
RECURSIVE DigitsValue(_)
DigitsValue(digits) ==
    IF digits = << >> THEN 0
    ELSE 10 * DigitsValue(SubSeq(digits, 1, Len(digits) - 1)) + digits[Len(digits)]

\* parseInt(req.params.id): the leading digits, NaN when there are none
ParseInt(param) ==
    IF param.digits = << >> THEN [nan |-> TRUE, num |-> 0]
    ELSE [nan |-> FALSE, num |-> DigitsValue(param.digits)]

\* the requests to a collection
StoreRequests ==
    {[op |-> "get", body |-> CHOOSE b \in PostBodies : ~b.valid,
      param |-> CHOOSE p \in IdParams : p.digits = << >>]}
      \cup {[op |-> "post", body |-> b,
             param |-> CHOOSE p \in IdParams : p.digits = << >>] : b \in PostBodies}
      \cup {[op |-> "delete", body |-> CHOOSE b \in PostBodies : ~b.valid,
             param |-> p] : p \in IdParams}

\* the message of a DELETE for an id that is not in the collection
NotFoundMessage(coll) ==
    IF coll = "portfolio" THEN "Portfolio stock not found"
    ELSE "Watchlist stock not found"

\* the map, the counter and the response after the handler of request req:
\* GET answers the demo user's stocks, POST validates and creates, DELETE
\* parses the id and deletes
Handle(coll, map, counter, req) ==
    CASE req.op = "get" ->
           [map |-> map, counter |-> counter, res |-> Json(StocksOf(map, 1))]
      [] req.op = "post" /\ ~SafeParse(req.body) ->
           [map |-> map, counter |-> counter,
            res |-> ErrorResponse(400, "Invalid request body")]
      [] req.op = "post" /\ SafeParse(req.body) ->
           LET stock == CreatedStock(map, counter, req.body)
           IN  [map |-> MapSet(map, stock), counter |-> counter + 1,
                res |-> [status |-> 201, body |-> stock]]
      [] req.op = "delete" /\ ParseInt(req.param).nan ->
           [map |-> map, counter |-> counter,
            res |-> ErrorResponse(400, "Invalid ID format")]
      [] req.op = "delete" /\ ~ParseInt(req.param).nan ->
           LET id == ParseInt(req.param).num
           IN  IF id \in DOMAIN map
               THEN [map |-> MapDelete(map, id), counter |-> counter,
                     res |-> [status |-> 204, body |-> << >>]]
               ELSE [map |-> map, counter |-> counter,
                     res |-> ErrorResponse(404, NotFoundMessage(coll))]

\* ------------------------------------------------------------ state

VARIABLES
    now,            \* the instant of the request
    provQuote,      \* the quote the provider holds for the symbol, or NoQuote
    world,          \* the history the provider holds for the symbol
    timeframe,      \* the chart's timeframe prop
    endpoint,       \* the endpoint the chart fetches
    interval,       \* the interval the chart sends
    pc,             \* "idle", "quote", "historical", "responded", "rendered"
    quote,          \* the handler's quote once the lookup resolved
    historicalData, \* the handler's bars once the fetch resolved
    branch,         \* the branch the handler took: real, synthetic, empty, error
    failed,         \* the provider call that rejected: none, quote, historical
    res,            \* the HTTP response, NoResponse before it is sent
    chartData,      \* the chart's state
    newsPc,         \* the news handler: "idle", "awaiting", "responded"
    search,         \* the five searches of the news handler, by position
    newsRes,        \* the response of the news handler
    headerQuery,    \* the text of the header's search input
    location,       \* where the header has navigated to, "" before it does
    searchPc,       \* the search handler: "idle", "awaiting", "responded"
    searchQuery,    \* the q of the search request
    searchCalls,    \* the calls of yahooFinance.search the request has made
    searchRes,      \* the response of the search handler
    quotePc,        \* the quote handler: "idle", "awaiting", "responded"
    quoteOutcome,   \* the outcome of yahooFinance.quote for the request
    quoteRes,       \* the response of the quote handler
    prevOutcome,    \* the outcome of the quote request before this one
    prevRes,        \* the response of the quote request before this one
    loopPc,         \* a quote loop: "idle", "running", "done"
    loopList,       \* the symbols the loop runs over
    loopIdx,        \* the iteration the loop waits in
    inFlight,       \* the iterations whose request is in flight
    requested,      \* the symbols requested so far, in the order of issue
    loopOutcome,    \* the outcomes of the settled requests, by iteration
    loopQuotes,     \* the quotes object of the loop
    collection,     \* the collection of the store looked at
    store,          \* its map, from id to stock
    counter,        \* its id counter
    idLog,          \* the ids assigned in it so far, in order
    created,        \* the stocks its POSTs have answered with 201
    removed,        \* the ids its DELETEs have answered with 204
    storePc,        \* its handlers: "idle", "pending", "responded"
    storeReq,       \* the request being handled
    storeRes,       \* the response to it
    storeBefore     \* the map when the request arrived

seriesVars == << now, provQuote, world, timeframe, endpoint, interval, pc, quote,
                 historicalData, branch, failed, res, chartData >>

newsVars == << newsPc, search, newsRes >>

searchVars == << headerQuery, location, searchPc, searchQuery, searchCalls,
                searchRes >>

quoteVars == << quoteOutcome, quotePc, quoteRes, prevOutcome, prevRes >>

loopVars == << loopPc, loopList, loopIdx, inFlight, requested, loopOutcome,
              loopQuotes >>

storeVars == << collection, store, counter, idLog, created, removed, storePc,
               storeReq, storeRes, storeBefore >>

vars == << seriesVars, newsVars, searchVars, quoteVars, loopVars, storeVars >>

StoreIdle ==
    /\ collection = "portfolio"
    /\ store = DemoStocks("portfolio")
    /\ counter = DemoCounter("portfolio")
    /\ idLog = [i \in DOMAIN DemoSymbols("portfolio") |-> i]
    /\ created = {}
    /\ removed = {}
    /\ storePc = "idle"
    /\ storeReq = CHOOSE r \in StoreRequests : r.op = "get"
    /\ storeRes = NoResponse
    /\ storeBefore = store

LoopIdle ==
    /\ loopPc = "idle"
    /\ loopList = << >>
    /\ loopIdx = 0
    /\ inFlight = {}
    /\ requested = << >>
    /\ loopOutcome = << >>
    /\ loopQuotes = << >>

ApiIdle ==
    /\ headerQuery = ""
    /\ location = ""
    /\ searchPc = "idle"
    /\ searchQuery = ""
    /\ searchCalls = 0
    /\ searchRes = NoResponse
    /\ quotePc = "idle"
    /\ quoteOutcome = [kind |-> "none", quote |-> CHOOSE q \in ProviderQuotes : TRUE]
    /\ quoteRes = NoResponse
    /\ prevOutcome = quoteOutcome
    /\ prevRes = NoResponse

NewsIdle ==
    /\ newsPc = "idle"
    /\ search = [i \in DOMAIN NewsSymbols |-> [state |-> "idle", news |-> << >>]]
    /\ newsRes = NoResponse

Init ==
    /\ NewsIdle
    /\ ApiIdle
    /\ LoopIdle
    /\ StoreIdle
    /\ now \in {d * 1440 + m : d \in RequestDays, m \in RequestTimes}
    /\ \E h \in Holdings : provQuote = h.quote /\ world = h.world
    /\ timeframe = "1D"
    /\ endpoint = "intraday"
    /\ interval = "5min"
    /\ pc = "idle"
    /\ quote = NoQuote
    /\ historicalData = << >>
    /\ branch = "none"
    /\ failed = "none"
    /\ res = NoResponse
    /\ chartData = << >>

\* the chart is shown with a timeframe and fetches
\* /api/stocks/<endpoint>/<symbol>?interval=<interval>; the handler starts
\* and awaits yahooFinance.quote(symbol)
ChartFetch(tf) ==
    /\ pc = "idle"
    /\ timeframe' = tf
    /\ endpoint' = GetEndpointAndInterval(tf).endpoint
    /\ interval' = GetEndpointAndInterval(tf).interval
    /\ pc' = "quote"
    /\ UNCHANGED << newsVars, searchVars, quoteVars, loopVars, storeVars >>
    /\ UNCHANGED << now, provQuote, world, quote, historicalData, branch,
                    failed, res, chartData >>

\* a catch block that logs and sends nothing
MutFallback(call) ==
    /\ branch' = "error"
    /\ failed' = call
    /\ res' = res
    /\ pc' = "responded"

\* the catch block: console.error, then res.json(fallbackData)
Fallback(call) ==
    /\ branch' = "error"
    /\ failed' = call
    /\ res' = FallbackResponse(endpoint)
    /\ pc' = "responded"

\* yahooFinance.quote rejects: the handler's catch block answers
QuoteReject ==
    /\ pc = "quote"
    /\ Fallback("quote")
    /\ UNCHANGED << newsVars, searchVars, quoteVars, loopVars, storeVars >>
    /\ UNCHANGED << now, provQuote, world, timeframe, endpoint, interval, quote,
                    historicalData, chartData >>

\* yahooFinance.quote resolves (with a quote or undefined): the handler goes
\* on to await yahooFinance.historical
QuoteResolve ==
    /\ pc = "quote"
    /\ quote' = provQuote
    /\ pc' = "historical"
    /\ UNCHANGED << newsVars, searchVars, quoteVars, loopVars, storeVars >>
    /\ UNCHANGED << now, provQuote, world, timeframe, endpoint, interval,
                    historicalData, branch, failed, res, chartData >>

\* yahooFinance.historical rejects: the handler's catch block answers
HistoricalReject ==
    /\ pc = "historical"
    /\ Fallback("historical")
    /\ UNCHANGED << newsVars, searchVars, quoteVars, loopVars, storeVars >>
    /\ UNCHANGED << now, provQuote, world, timeframe, endpoint, interval, quote,
                    historicalData, chartData >>

\* yahooFinance.historical resolves: the handler builds the body and answers
HistoricalResolve ==
    /\ pc = "historical"
    /\ \E seed \in RandSeeds :
         LET bars == ProviderHistorical(endpoint, world, now)
             b    == SeriesBranch(endpoint, Len(bars), quote.found)
         IN  /\ historicalData' = bars
             /\ branch' = b
             /\ res' = Json(Body(endpoint, Information(endpoint),
                                 SeriesOf(endpoint, b, quote, bars, now, seed)))
    /\ pc' = "responded"
    /\ UNCHANGED << newsVars, searchVars, quoteVars, loopVars, storeVars >>
    /\ UNCHANGED << now, provQuote, world, timeframe, endpoint, interval, quote,
                    failed, chartData >>

\* the chart's effect runs on the response
ChartEffect ==
    /\ pc = "responded"
    /\ chartData' = ChartDataOf(timeframe, endpoint, interval, now, res.body,
                                chartData)
    /\ pc' = "rendered"
    /\ UNCHANGED << newsVars, searchVars, quoteVars, loopVars, storeVars >>
    /\ UNCHANGED << now, provQuote, world, timeframe, endpoint, interval, quote,
                    historicalData, branch, failed, res >>

\* GET /api/market/news: symbols.map(symbol => yahooFinance.search(symbol))
\* issues the five searches, and the handler awaits Promise.all of them
NewsRequest ==
    /\ newsPc = "idle"
    /\ search' = [i \in DOMAIN NewsSymbols |-> [state |-> "pending", news |-> << >>]]
    /\ newsPc' = "awaiting"
    /\ UNCHANGED newsRes
    /\ UNCHANGED << seriesVars, searchVars, quoteVars, loopVars, storeVars >>

\* the search of symbol i resolves with n news items; Promise.all fulfils
\* with the last of the five, and the handler answers the transformed feed
SearchFulfil(i, n) ==
    /\ search[i].state = "pending"
    /\ search' = [search EXCEPT ![i] =
                     [state |-> "fulfilled", news |-> ProviderNews(NewsSymbols[i], n)]]
    /\ IF newsPc = "awaiting" /\ \A j \in DOMAIN search' : search'[j].state = "fulfilled"
       THEN newsPc' = "responded" /\ newsRes' = TransformedNews(search')
       ELSE UNCHANGED << newsPc, newsRes >>
    /\ UNCHANGED << seriesVars, searchVars, quoteVars, loopVars, storeVars >>

\* the search of symbol i rejects; Promise.all rejects with the first
\* rejection, and the handler's catch block answers the default news
SearchReject(i) ==
    /\ search[i].state = "pending"
    /\ search' = [search EXCEPT ![i] = [state |-> "rejected", news |-> << >>]]
    /\ IF newsPc = "awaiting"
       THEN newsPc' = "responded" /\ newsRes' = DefaultNews
       ELSE UNCHANGED << newsPc, newsRes >>
    /\ UNCHANGED << seriesVars, searchVars, quoteVars, loopVars, storeVars >>

Next ==
    \/ \E tf \in Timeframes : ChartFetch(tf)
    \/ QuoteReject
    \/ QuoteResolve
    \/ HistoricalReject
    \/ HistoricalResolve
    \/ ChartEffect

Spec == Init /\ [][Next]_vars

\* the news endpoint on its own
InitNews ==
    /\ NewsIdle
    /\ ApiIdle
    /\ LoopIdle
    /\ StoreIdle
    /\ now = BaseDay * 1440
    /\ provQuote = NoQuote
    /\ world = [n |-> 0, lag |-> 0]
    /\ timeframe = "1D"
    /\ endpoint = "intraday"
    /\ interval = "5min"
    /\ pc = "idle"
    /\ quote = NoQuote
    /\ historicalData = << >>
    /\ branch = "none"
    /\ failed = "none"
    /\ res = NoResponse
    /\ chartData = << >>

NextNews ==
    \/ NewsRequest
    \/ \E i \in DOMAIN NewsSymbols : \E n \in 0 .. MaxNews : SearchFulfil(i, n)
    \/ \E i \in DOMAIN NewsSymbols : SearchReject(i)

SpecNews == InitNews /\ [][NextNews]_vars

\* ------------------------------------------------------------ search and quote

\* no outcome of yahooFinance.quote yet
NoOutcome == [kind |-> "none", quote |-> CHOOSE q \in ProviderQuotes : TRUE]

\* the search handler starts on query q: a missing (empty) q is answered
\* 400, any other is handed to yahooFinance.search
SearchStart(q) ==
    /\ searchQuery' = q
    /\ IF QueryMissing(q)
       THEN /\ searchPc' = "responded"
            /\ searchCalls' = 0
            /\ searchRes' = ErrorResponse(400, "Query parameter q is required")
       ELSE /\ searchPc' = "awaiting"
            /\ searchCalls' = 1
            /\ searchRes' = NoResponse

\* the header's input is set to q; its query fetches the search endpoint
\* only when it is enabled
HeaderType(q) ==
    /\ searchPc = "idle"
    /\ headerQuery' = q
    /\ UNCHANGED location
    /\ IF HeaderEnabled(q)
       THEN SearchStart(q)
       ELSE UNCHANGED << searchPc, searchQuery, searchCalls, searchRes >>
    /\ UNCHANGED << quoteVars, seriesVars, newsVars, loopVars, storeVars >>

\* GET /api/stocks/search?q=<q> from any client
SearchRequest(q) ==
    /\ searchPc = "idle"
    /\ SearchStart(q)
    /\ UNCHANGED << headerQuery, location >>
    /\ UNCHANGED << quoteVars, seriesVars, newsVars, loopVars, storeVars >>

\* yahooFinance.search resolves with n quotes: res.json(transformedResults)
SearchResolve(n) ==
    /\ searchPc = "awaiting"
    /\ searchRes' = TransformedResults(ProviderMatches(searchQuery, n))
    /\ searchPc' = "responded"
    /\ UNCHANGED << headerQuery, location, searchQuery, searchCalls >>
    /\ UNCHANGED << quoteVars, seriesVars, newsVars, loopVars, storeVars >>

\* yahooFinance.search rejects: the catch block answers 500
SearchFail ==
    /\ searchPc = "awaiting"
    /\ searchRes' = ErrorResponse(500, "Failed to search stocks")
    /\ searchPc' = "responded"
    /\ UNCHANGED << headerQuery, location, searchQuery, searchCalls >>
    /\ UNCHANGED << quoteVars, seriesVars, newsVars, loopVars, storeVars >>

\* the search handler is ready for the next request
SearchNext ==
    /\ searchPc = "responded"
    /\ searchPc' = "idle"
    /\ searchQuery' = ""
    /\ searchCalls' = 0
    /\ searchRes' = NoResponse
    /\ UNCHANGED << headerQuery, location >>
    /\ UNCHANGED << quoteVars, seriesVars, newsVars, loopVars, storeVars >>

\* the header's form is submitted while it shows the answer to its query:
\* with a first match it navigates and clears the input, without one it
\* does nothing
HandleSearch ==
    /\ searchPc = "responded"
    /\ HeaderEnabled(headerQuery) /\ headerQuery = searchQuery
    /\ HasFirstMatch(searchRes.body)
    /\ location' = SubmitLocation(searchRes.body)
    /\ headerQuery' = ""
    /\ UNCHANGED << searchPc, searchQuery, searchCalls, searchRes >>
    /\ UNCHANGED << quoteVars, seriesVars, newsVars, loopVars, storeVars >>

\* GET /api/stocks/quote/:symbol: the handler awaits yahooFinance.quote
QuoteRequest ==
    /\ quotePc = "idle"
    /\ quotePc' = "awaiting"
    /\ UNCHANGED << quoteOutcome, quoteRes, prevOutcome, prevRes >>
    /\ UNCHANGED << now, searchVars, newsVars, loopVars, storeVars >>
    /\ UNCHANGED << provQuote, world, timeframe, endpoint, interval, pc, quote,
                    historicalData, branch, failed, res, chartData >>

\* yahooFinance.quote settles with outcome o and the handler answers
QuoteAnswer(o) ==
    /\ quotePc = "awaiting"
    /\ quoteOutcome' = o
    /\ quoteRes' = QuoteResponse(o, now)
    /\ quotePc' = "responded"
    /\ UNCHANGED << prevOutcome, prevRes >>
    /\ UNCHANGED << now, searchVars, newsVars, loopVars, storeVars >>
    /\ UNCHANGED << provQuote, world, timeframe, endpoint, interval, pc, quote,
                    historicalData, branch, failed, res, chartData >>

\* the quote handler is ready for the next request; the last exchange is
\* remembered
QuoteNext ==
    /\ quotePc = "responded"
    /\ quotePc' = "idle"
    /\ prevOutcome' = quoteOutcome
    /\ prevRes' = quoteRes
    /\ quoteOutcome' = NoOutcome
    /\ quoteRes' = NoResponse
    /\ UNCHANGED << now, searchVars, newsVars, loopVars, storeVars >>
    /\ UNCHANGED << provQuote, world, timeframe, endpoint, interval, pc, quote,
                    historicalData, branch, failed, res, chartData >>

\* a day passes between two requests
Tick ==
    /\ DayOf(now) < BaseDay + MaxDayOffset
    /\ now' = now + 1440
    /\ UNCHANGED << searchVars, quoteVars, newsVars, loopVars, storeVars >>
    /\ UNCHANGED << provQuote, world, timeframe, endpoint, interval, pc, quote,
                    historicalData, branch, failed, res, chartData >>

\* the search and quote endpoints on their own
InitApi == InitNews

NextApi ==
    \/ \E q \in Queries : HeaderType(q)
    \/ \E q \in Queries : SearchRequest(q)
    \/ \E n \in 0 .. MaxMatches : SearchResolve(n)
    \/ SearchFail
    \/ HandleSearch
    \/ SearchNext
    \/ QuoteRequest
    \/ \E o \in QuoteOutcomes : QuoteAnswer(o)
    \/ QuoteNext
    \/ Tick

SpecApi == InitApi /\ [][NextApi]_vars

\* ------------------------------------------------------------ quote loop steps

\* the query function starts on a non-empty list and enters iteration 1
LoopStart(list) ==
    /\ loopPc = "idle"
    /\ loopList' = list
    /\ loopIdx' = 1
    /\ inFlight' = IssuedAt(list, 1)
    /\ requested' = SymbolsAt(list, IssuedAt(list, 1))
    /\ loopOutcome' = << >>
    /\ loopQuotes' = << >>
    /\ loopPc' = "running"
    /\ UNCHANGED << seriesVars, newsVars, searchVars, quoteVars, storeVars >>

\* the request of iteration k settles with outcome o; the loop goes on from
\* the iteration it waits in to the first whose request has not settled
FetchSettle(k, o) ==
    /\ loopPc = "running"
    /\ k \in inFlight
    /\ LET outcome == (k :> o) @@ loopOutcome
           next    == AwaitedFrom(loopList, loopIdx, DOMAIN outcome)
           issued  == UNION {IssuedAt(loopList, j) : j \in loopIdx + 1 .. next}
       IN  /\ loopOutcome' = outcome
           /\ loopIdx' = next
           /\ inFlight' = (inFlight \ {k}) \cup issued
           /\ requested' = requested \o SymbolsAt(loopList, issued)
           /\ loopQuotes' = QuotesAfter(loopQuotes, loopList, outcome, loopIdx, next)
           /\ loopPc' = IF next > Len(loopList) THEN "done" ELSE "running"
    /\ UNCHANGED loopList
    /\ UNCHANGED << seriesVars, newsVars, searchVars, quoteVars, storeVars >>

\* the query has returned its quotes; the next run may start
LoopNext ==
    /\ loopPc = "done"
    /\ loopPc' = "idle"
    /\ loopList' = << >>
    /\ loopIdx' = 0
    /\ inFlight' = {}
    /\ requested' = << >>
    /\ loopOutcome' = << >>
    /\ loopQuotes' = << >>
    /\ UNCHANGED << seriesVars, newsVars, searchVars, quoteVars, storeVars >>

\* a quote loop on its own
InitLoop == InitNews

NextLoop ==
    \/ \E list \in LoopLists : LoopStart(list)
    \/ \E k \in 1 .. MaxList : \E o \in FetchOutcomes : FetchSettle(k, o)
    \/ LoopNext

SpecLoop == InitLoop /\ [][NextLoop]_vars

\* ------------------------------------------------------------ storage requests

\* a request to the collection arrives; at most MaxCreates stocks are created
StoreRequest(req) ==
    /\ storePc # "pending"
    /\ (req.op = "post" /\ SafeParse(req.body)) =>
           Len(idLog) < Len(DemoSymbols(collection)) + MaxCreates
    /\ storePc' = "pending"
    /\ storeReq' = req
    /\ storeRes' = NoResponse
    /\ storeBefore' = store
    /\ UNCHANGED << collection, store, counter, idLog, created, removed >>
    /\ UNCHANGED << seriesVars, newsVars, searchVars, quoteVars, loopVars >>

\* the handler runs on the request and answers; the ids assigned, the stocks
\* created and the ids deleted are recorded
StoreHandle ==
    /\ storePc = "pending"
    /\ LET after == Handle(collection, store, counter, storeReq)
       IN  /\ store' = after.map
           /\ counter' = after.counter
           /\ storeRes' = after.res
           /\ idLog' = IF after.res.status = 201
                        THEN Append(idLog, after.res.body.id) ELSE idLog
           /\ created' = IF after.res.status = 201
                          THEN created \cup {after.res.body} ELSE created
           /\ removed' = IF after.res.status = 204
                          THEN removed \cup {ParseInt(storeReq.param).num}
                          ELSE removed
    /\ storePc' = "responded"
    /\ UNCHANGED << collection, storeReq, storeBefore >>
    /\ UNCHANGED << seriesVars, newsVars, searchVars, quoteVars, loopVars >>

\* one collection of the store on its own
InitStore ==
    \E c \in Collections :
        /\ collection = c
        /\ store = DemoStocks(c)
        /\ counter = DemoCounter(c)
        /\ idLog = [i \in DOMAIN DemoSymbols(c) |-> i]
        /\ created = {}
        /\ removed = {}
        /\ storePc = "idle"
        /\ storeReq = CHOOSE r \in StoreRequests : r.op = "get"
        /\ storeRes = NoResponse
        /\ storeBefore = store
        /\ NewsIdle /\ ApiIdle /\ LoopIdle
        /\ now = BaseDay * 1440
        /\ provQuote = NoQuote
        /\ world = [n |-> 0, lag |-> 0]
        /\ timeframe = "1D"
        /\ endpoint = "intraday"
        /\ interval = "5min"
        /\ pc = "idle"
        /\ quote = NoQuote
        /\ historicalData = << >>
        /\ branch = "none"
        /\ failed = "none"
        /\ res = NoResponse
        /\ chartData = << >>

NextStore ==
    \/ \E req \in StoreRequests : StoreRequest(req)
    \/ StoreHandle

SpecStore == InitStore /\ [][NextStore]_vars

\* ------------------------------------------------------------ properties

\* the handler has answered
Answered == pc \in {"responded", "rendered"}

\* the series container of the response and the series in it
ResContainers == DOMAIN res.body \ {"Meta Data"}

ResSeries == res.body[CHOOSE k \in ResContainers : TRUE]

\* low <= min(open, close) and max(open, close) <= high
Ordered(c) ==
    /\ c.low <= c.open /\ c.low <= c.close
    /\ c.open <= c.high /\ c.close <= c.high

\* ------------------------------------------------------------ one request

\* no handler has been entered and nothing has been answered
AllIdle ==
    /\ pc = "idle" /\ res = NoResponse
    /\ newsPc = "idle" /\ newsRes = NoResponse
    /\ searchPc = "idle" /\ searchRes = NoResponse
    /\ quotePc = "idle" /\ quoteRes = NoResponse
    /\ storePc = "idle" /\ storeRes = NoResponse

\* a series request for timeframe tf arrives at instant t while the provider
\* holds h; the handler starts and awaits yahooFinance.quote(symbol)
SeriesArrive(tf, h, t) ==
    /\ AllIdle
    /\ now' = t
    /\ provQuote' = h.quote
    /\ world' = h.world
    /\ timeframe' = tf
    /\ endpoint' = GetEndpointAndInterval(tf).endpoint
    /\ interval' = GetEndpointAndInterval(tf).interval
    /\ pc' = "quote"
    /\ UNCHANGED << newsVars, searchVars, quoteVars, loopVars, storeVars >>
    /\ UNCHANGED << quote, historicalData, branch, failed, res, chartData >>

\* the settling of the provider calls of the news endpoint's i-th search
SearchSettle(i) ==
    SearchReject(i) \/ \E n \in 0 .. MaxNews : SearchFulfil(i, n)

\* one request, to any endpoint, and its handling
NextLive ==
    \/ \E tf \in Timeframes, h \in Holdings, m \in RequestTimes :
          SeriesArrive(tf, h, BaseDay * 1440 + m)
    \/ QuoteReject
    \/ QuoteResolve
    \/ HistoricalReject
    \/ HistoricalResolve
    \/ AllIdle /\ NewsRequest
    \/ \E i \in DOMAIN NewsSymbols : SearchSettle(i)
    \/ \E q \in Queries : AllIdle /\ SearchRequest(q)
    \/ \E n \in 0 .. MaxMatches : SearchResolve(n)
    \/ SearchFail
    \/ AllIdle /\ QuoteRequest
    \/ \E o \in QuoteOutcomes : QuoteAnswer(o)
    \/ \E req \in StoreRequests : AllIdle /\ StoreRequest(req)
    \/ StoreHandle

\* every provider call settles and every handler whose awaited call has
\* settled goes on
Fairness ==
    /\ WF_vars(QuoteReject \/ QuoteResolve)
    /\ WF_vars(HistoricalReject \/ HistoricalResolve)
    /\ \A i \in DOMAIN NewsSymbols : WF_vars(SearchSettle(i))
    /\ WF_vars(SearchFail \/ \E n \in 0 .. MaxMatches : SearchResolve(n))
    /\ WF_vars(\E o \in QuoteOutcomes : QuoteAnswer(o))
    /\ WF_vars(StoreHandle)

SpecLive == InitNews /\ [][NextLive]_vars /\ Fairness

\* C1: when neither provider call fails, the response follows the preference
\* order: the bars if the historical call returned at least one, a synthetic
\* series if it returned none and a quote is present, an empty container if
\* it returned none and no quote is present; exactly one of the three
C1_PreferenceOrder ==
    (Answered /\ failed = "none") =>
        LET bars == ProviderHistorical(endpoint, world, now)
        IN  /\ branch \in {"real", "synthetic", "empty"}
            /\ Len(bars) > 0 =>
                 /\ branch = "real"
                 /\ {SubSeq(k, 1, 3) : k \in DOMAIN ResSeries}
                      = {IsoDate(bars[j].date) : j \in DOMAIN bars}
            /\ (Len(bars) = 0 /\ provQuote.found) =>
                 /\ branch = "synthetic"
                 /\ ResSeries # EmptySeries
                 /\ \A k \in DOMAIN ResSeries : ParseDate(k) <= now
            /\ (Len(bars) = 0 /\ ~provQuote.found) =>
                 /\ branch = "empty"
                 /\ ResSeries = EmptySeries

\* a daily request with no bar and a quote has been answered
C1_Witness ==
    /\ pc = "responded" /\ failed = "none" /\ endpoint = "daily"
    /\ world.n = 0 /\ provQuote.found /\ branch = "synthetic"

\* C2: when a provider call of a series endpoint fails, the answer is still
\* HTTP 200 with "Meta Data" and the endpoint's own container, empty
C2_FailureAnswers200 ==
    Answered =>
        /\ res.status = 200
        /\ "Meta Data" \in DOMAIN res.body
        /\ failed # "none" =>
             /\ ResContainers = {ContainerName(endpoint)}
             /\ ResSeries = EmptySeries

\* the historical fetch failed after the quote lookup delivered a quote
C2_Witness ==
    /\ pc = "responded" /\ failed = "historical" /\ quote.found
    /\ endpoint = "weekly"

\* C3: whenever the historical fetch would return at least one bar, the
\* response holds the real bars, whatever the outcome of the quote lookup
C3_RealBarsWhateverQuote ==
    (Answered /\ world.n > 0 /\ failed # "historical") =>
        /\ branch = "real"
        /\ ResSeries # EmptySeries

\* C4: for a positive quote price every synthetic candle has
\* low <= min(open, close) and max(open, close) <= high, before and after
\* the rounding to two decimals
C4_SyntheticOrdered ==
    (Answered /\ branch = "synthetic" /\ quote.regularMarketPrice > 0) =>
        /\ \A k \in DOMAIN ResSeries : Ordered(ResSeries[k])
        /\ endpoint = "intraday" =>
             \A i \in 0 .. IntradayBuckets - 1 : Ordered(IntradayPrices(quote, i))
        /\ endpoint # "intraday" =>
             \A i \in 0 .. GenParams(endpoint).count - 1 :
                \A r \in 0 .. RandLevels - 1 :
                   Ordered(BucketPrices(endpoint, quote, i, r))

\* a synthetic series of a 0.15 dollar quote: the intraday low is negative
C4_Witness ==
    /\ pc = "responded" /\ branch = "synthetic"
    /\ quote.regularMarketPrice = 1500
    /\ \E k \in DOMAIN ResSeries : ResSeries[k].low < 0

\* C5: every response of a series endpoint holds exactly one series container,
\* named after the endpoint's granularity, on each of its three paths
C5_OneContainerOfGranularity ==
    Answered =>
        /\ Cardinality(ResContainers) = 1
        /\ endpoint = "daily" => ResContainers = {"Time Series (Daily)"}
        /\ endpoint = "weekly" => ResContainers = {"Weekly Time Series"}
        /\ endpoint = "monthly" => ResContainers = {"Monthly Time Series"}

\* a daily request answered from the catch block
C5_Witness == pc = "responded" /\ endpoint = "daily" /\ branch = "error"

\* C6: the key the chart constructs from its (endpoint, interval) pair is a
\* key of the response of the endpoint it fetched
C6_ChartKeyInResponse ==
    Answered => TimeSeriesKey(endpoint, interval) \in DOMAIN res.body

\* the lookup table of the timeframes as the specification gives it, an
\* unlisted timeframe taking the row of 1D
TableRow(tf) ==
    CASE tf = "1W"  -> [endpoint |-> "intraday", interval |-> "60min", window |-> "7 days"]
      [] tf = "1M"  -> [endpoint |-> "daily", interval |-> "", window |-> "1 month"]
      [] tf = "3M"  -> [endpoint |-> "daily", interval |-> "", window |-> "3 months"]
      [] tf = "1Y"  -> [endpoint |-> "weekly", interval |-> "", window |-> "1 year"]
      [] tf = "5Y"  -> [endpoint |-> "weekly", interval |-> "", window |-> "5 years"]
      [] tf = "Max" -> [endpoint |-> "monthly", interval |-> "", window |-> "all"]
      [] OTHER      -> [endpoint |-> "intraday", interval |-> "5min", window |-> "same day"]

InWindow(window, t, date) ==
    CASE window = "same day" -> SubSeq(date, 1, 3) = IsoDate(t)
      [] window = "7 days"   -> ParseDate(date) >= t - 7 * 1440
      [] window = "1 month"  -> ParseDate(date) >= SetMonthBack(t, 1)
      [] window = "3 months" -> ParseDate(date) >= SetMonthBack(t, 3)
      [] window = "1 year"   -> ParseDate(date) >= SetMonthBack(t, 12)
      [] window = "5 years"  -> ParseDate(date) >= SetMonthBack(t, 60)
      [] window = "all"      -> TRUE

C8_SyntheticLength ==
    (Answered /\ branch = "synthetic") =>
        Cardinality(DOMAIN ResSeries) =
            CASE endpoint = "intraday" -> 96
              [] endpoint = "daily" ->
                   30 - Cardinality({i \in 0 .. 29 :
                                        GetDay(DayOf(now) - i) \in {0, 6}})
              [] endpoint = "weekly" -> 52
              [] endpoint = "monthly" -> 60

\* a synthetic monthly series requested on a 31st
C8_Witness ==
    /\ pc = "responded" /\ branch = "synthetic" /\ endpoint = "monthly"
    /\ IsoDate(now)[3] = 31

\* the most recent entry of the series of the response
Latest ==
    ResSeries[CHOOSE k \in DOMAIN ResSeries :
                 \A j \in DOMAIN ResSeries : ParseDate(j) <= ParseDate(k)]

\* C9 as stated: the close of the most recent entry of a synthetic daily
\* series is within 1% of the quote price, on any day of the week
C9_LatestCloseNearPrice ==
    (Answered /\ branch = "synthetic" /\ endpoint = "daily") =>
        LET p == CurrentPrice(quote)
        IN  /\ 100 * (Latest.close - p) <= p
            /\ 100 * (p - Latest.close) <= p

\* the days between the request and the last day that is no weekend day
DaysSinceWorkingDay ==
    Min({i \in 0 .. 2 : GetDay(DayOf(now) - i) \notin {0, 6}})

\* C9 as amended: the close of the most recent entry is the two-decimal
\* rounding of a value within 1% of p * (1 - 0.002 * i), i the number of days
\* since the last working day (0 on a working day, 1 on a Saturday, 2 on a
\* Sunday)
C9_LatestCloseNearDriftedPrice ==
    (Answered /\ branch = "synthetic" /\ endpoint = "daily") =>
        LET p == MulFrac(CurrentPrice(quote), 1000 - 2 * DaysSinceWorkingDay, 1000)
        IN  /\ Latest.close - 50 <= MulFrac(p, 101, 100)
            /\ Latest.close + 50 >= MulFrac(p, 99, 100)

\* a synthetic daily series requested on a Sunday
C9_Witness ==
    /\ pc = "responded" /\ branch = "synthetic" /\ endpoint = "daily"
    /\ GetDay(DayOf(now)) = 0
\* the feed of the news response
Feed == newsRes.body.feed

\* C10: when one of the five searches fails and others succeed, the news
\* response still holds the items of the symbols that succeeded
C10_PartialFailureKeepsItems ==
    (/\ newsPc = "responded"
     /\ \A i \in DOMAIN search : search[i].state \in {"fulfilled", "rejected"}) =>
        \A i \in DOMAIN search :
            \A j \in DOMAIN FeedOf(NewsSymbols[i], search[i].news) :
                \E k \in DOMAIN Feed :
                    Feed[k] = FeedOf(NewsSymbols[i], search[i].news)[j]
\* C11: when all five symbol searches of a news request have failed, the
\* answer is status 200 with a feed of exactly one item, the static
\* placeholder; never an empty feed, never an error status.
C11_AllFailedPlaceholder ==
    (\A i \in DOMAIN NewsSymbols : search[i].state = "rejected") =>
        /\ newsPc = "responded"
        /\ newsRes.status = 200
        /\ Len(Feed) = 1
        /\ Feed[1].title = "Markets Today: Wizarding Finance Update"
        /\ Feed[1].topic = "Markets"

C11_Witness ==
    /\ \A i \in DOMAIN NewsSymbols : search[i].state = "rejected"
    /\ newsPc = "responded"

\* C12: a search request whose query has fewer than 2 characters makes no
\* call of the provider's search and is answered { bestMatches: [] }.
C12_ShortQueryNoProviderCall ==
    (searchPc # "idle" /\ Len(searchQuery) < 2) =>
        /\ searchCalls = 0
        /\ searchPc = "responded"
        /\ searchRes = Json([bestMatches |-> << >>])

\* the "Global Quote" of the quote response
GlobalQuoteOfRes == quoteRes.body["Global Quote"]

\* C13: a symbol the provider does not find is answered 404 without a
\* "Global Quote", any other failure of the provider call is answered with
\* an error status without one, and a "Global Quote" is in the body only
\* when the provider returned a quote.
C13_NotFoundIs404 ==
    quotePc = "responded" =>
        /\ quoteOutcome.kind = "notfound" =>
               quoteRes.status = 404 /\ "Global Quote" \notin DOMAIN quoteRes.body
        /\ quoteOutcome.kind = "error" =>
               quoteRes.status >= 400 /\ "Global Quote" \notin DOMAIN quoteRes.body
        /\ "Global Quote" \in DOMAIN quoteRes.body => quoteOutcome.kind = "quote"

C13_Witness == quotePc = "responded" /\ quoteOutcome.kind = "notfound"

\* the numeric fields of a "Global Quote"
NumericQuoteFields ==
    {"02. open", "03. high", "04. low", "05. price", "06. volume",
     "08. previous close", "09. change", "10. change percent"}

\* C14: every numeric field of a normalized quote is a decimal string that
\* parses to a finite number, whether the provider field is a number, a
\* string or absent.
C14_NumericFieldsParse ==
    (quotePc = "responded" /\ quoteOutcome.kind = "quote") =>
        \A f \in NumericQuoteFields : GlobalQuoteOfRes[f].kind = "decimal"

\* C15: for a provider quote with price p and previous close c, "09. change"
\* is the decimal string of p - c and "10. change percent" that of
\* (p - c) / c * 100.
C15_ChangeFromPrices ==
    LET p == quoteOutcome.quote.regularMarketPrice
        c == quoteOutcome.quote.regularMarketPreviousClose
    IN  (/\ quotePc = "responded" /\ quoteOutcome.kind = "quote"
         /\ p.type = "number" /\ p.str.kind = "decimal"
         /\ c.type = "number" /\ c.str.kind = "decimal" /\ c.str.num > 0) =>
            /\ GlobalQuoteOfRes["09. change"] = Decimal(p.str.num - c.str.num)
            /\ GlobalQuoteOfRes["10. change percent"] =
                   Decimal((1000000 * ((p.str.num - c.str.num) \div 10000))
                              \div (c.str.num \div 10000))

\* C16: two quote requests that receive the same provider quote are
\* answered with the same "Global Quote" in every field.
C16_SameQuoteSameOutput ==
    (/\ quotePc = "responded" /\ quoteOutcome.kind = "quote"
     /\ prevOutcome = quoteOutcome) =>
        quoteRes = prevRes

C19_AnswerAfterAllSettled ==
    /\ newsPc = "awaiting" =>
           \A i \in DOMAIN search : search[i].state # "idle"
    /\ newsPc = "responded" =>
           \A i \in DOMAIN search : search[i].state \in {"fulfilled", "rejected"}

\* the "Meta Data" the handler answers at this instant when the provider
\* holds a bar for the symbol
RealMetaData ==
    Json(Body(endpoint, Information(endpoint),
              SeriesOf(endpoint, "real", quote,
                       ProviderHistorical(endpoint, [n |-> 1, lag |-> 0], now),
                       now, 0))).body["Meta Data"]

\* C17: the "Meta Data" of a response built from synthetic candles differs
\* from the "Meta Data" of a response built from real provider bars for the
\* same symbol and endpoint.
C17_MetaDataTellsSynthetic ==
    (Answered /\ branch = "synthetic") => res.body["Meta Data"] # RealMetaData

\* C20: for each of the seven timeframes the data handed to the chart is
\* exactly the response entries inside the timeframe's lookback window (all
\* of them for Max), none added or altered, in ascending timestamp order.
C20_ChartDataFilteredSorted ==
    (pc = "rendered" /\ timeframe # "YTD") =>
        /\ {chartData[i].date : i \in DOMAIN chartData}
              = {k \in DOMAIN ResSeries :
                    InWindow(TableRow(timeframe).window, now, k)}
        /\ \A i \in DOMAIN chartData :
               LET entry == ResSeries[chartData[i].date]
               IN  /\ chartData[i].value = entry.close
                   /\ chartData[i].open = entry.open
                   /\ chartData[i].high = entry.high
                   /\ chartData[i].low = entry.low
                   /\ chartData[i].volume = entry.volume
        /\ \A i, j \in DOMAIN chartData :
               i < j => ParseDate(chartData[i].date) < ParseDate(chartData[j].date)

\* C21: every response of the news endpoint has a non-empty feed, whatever
\* the outcome of the five searches.
C21_FeedNeverEmpty == newsPc = "responded" => Len(Feed) >= 1

\* C22: for timeframe 1D, whenever the provider has a quote for the symbol,
\* the chart data left by the same-calendar-day filter is non-empty, for a
\* synthetic series and for one expanded from real daily bars.
C22_OneDayChartNonEmpty ==
    (/\ pc = "rendered" /\ timeframe = "1D" /\ provQuote.found
     /\ branch \in {"synthetic", "real"}) =>
        Len(chartData) >= 1

\* C23: every candle the intraday endpoint emits when it expands real daily
\* bars satisfies low <= min(open, close) and max(open, close) <= high,
\* provided the daily bar it comes from satisfies that ordering.
C23_ExpansionOrdered ==
    (Answered /\ endpoint = "intraday" /\ branch = "real") =>
        \A j \in DOMAIN historicalData :
            Ordered(historicalData[j]) =>
                \A k \in DOMAIN ResSeries :
                    SubSeq(k, 1, 3) = IsoDate(historicalData[j].date) =>
                        Ordered(ResSeries[k])

\* C24: the span the selected endpoint fetches covers the timeframe's
\* lookback window: for 1M and 3M (daily) and for 1Y and 5Y (weekly), every
\* bar the provider holds inside the window is an entry of the response.
C24_FetchCoversWindow ==
    (/\ Answered /\ failed = "none"
     /\ timeframe \in {"1M", "3M", "1Y", "5Y"}) =>
        \A j \in DOMAIN ProviderHeld(endpoint, world, now) :
            LET date == IsoDate(ProviderHeld(endpoint, world, now)[j].date)
            IN  InWindow(TableRow(timeframe).window, now, date) =>
                    date \in DOMAIN ResSeries

\* C26 as stated: every symbol of the list is requested, and the resulting
\* map holds the "Global Quote" for each symbol whose response carried one,
\* null for each whose response carried none, and no key for a symbol whose
\* request threw.
C26_LoopSurvivesFailures ==
    loopPc = "done" =>
        /\ requested = loopList
        /\ \A j \in DOMAIN loopList :
               CASE loopOutcome[j] = "quote" ->
                      /\ loopList[j] \in DOMAIN loopQuotes
                      /\ loopQuotes[loopList[j]] = "Global Quote"
                 [] loopOutcome[j] = "message" ->
                      /\ loopList[j] \in DOMAIN loopQuotes
                      /\ loopQuotes[loopList[j]] = "null"
                 [] OTHER -> loopList[j] \notin DOMAIN loopQuotes

\* C26: a failed or error-status quote request does not stop a quote loop:
\* every entry of the list is requested, and the resulting map holds, for a
\* symbol, what its last request that did not throw wrote ("Global Quote" or
\* null), and no key for a symbol whose requests all threw.
C26_LoopKeepsLastAnswer ==
    loopPc = "done" =>
        /\ requested = loopList
        /\ DOMAIN loopOutcome = DOMAIN loopList
        /\ \A sym \in LoopSymbols :
               LET wrote == {j \in DOMAIN loopList :
                               loopList[j] = sym /\ loopOutcome[j] # "rejected"}
               IN  IF wrote = {} THEN sym \notin DOMAIN loopQuotes
                   ELSE /\ sym \in DOMAIN loopQuotes
                        /\ loopQuotes[sym] =
                              (IF loopOutcome[Max(wrote)] = "quote"
                               THEN "Global Quote" ELSE "null")

C26_Witness ==
    /\ loopPc = "done"
    /\ loopList = << "AAPL", "MSFT", "AAPL" >>
    /\ loopOutcome = << "rejected", "message", "quote" >>

\* C27: after any sequence of creates and deletes the ids within a
\* collection are pairwise distinct, every id a create returns is greater
\* than every id assigned before it (the demo ids 1 to 4 included), and an
\* id freed by a delete is never assigned again.
C27_IdsFreshAndDistinct ==
    /\ \A i, j \in DOMAIN idLog : i < j => idLog[i] < idLog[j]
    /\ \A i \in DOMAIN DemoSymbols(collection) : idLog[i] = i
    /\ \A k \in DOMAIN store :
           /\ store[k].id = k
           /\ \E i \in DOMAIN idLog : idLog[i] = k
    /\ \A a, b \in DOMAIN store : store[a].id = store[b].id => a = b
    /\ \A k \in removed :
           Cardinality({i \in DOMAIN idLog : idLog[i] = k}) = 1

C27_Witness ==
    /\ storePc = "responded" /\ storeRes.status = 201
    /\ 5 \in removed
    /\ storeRes.body.id = 6

\* C28: a stock a POST has answered with 201 is included in every later GET
\* response of its collection until a DELETE for its id succeeds.
C28_CreatedStockListed ==
    (storePc = "responded" /\ storeReq.op = "get") =>
        \A stock \in created :
            stock.id \notin removed =>
                \E i \in DOMAIN storeRes.body : storeRes.body[i] = stock

\* the :id is a number: decimal digits and nothing else
IsNumber(param) == param.digits # << >> /\ param.rest = ""

\* C29: a DELETE for an id that is not in the store answers 404 and leaves
\* the store unchanged, one for an id in the store answers 204 and removes
\* exactly that entry, one for an id that is not a number answers 400 and
\* leaves the store unchanged.
C29_DeleteAnswers ==
    (storePc = "responded" /\ storeReq.op = "delete") =>
        IF ~IsNumber(storeReq.param)
        THEN storeRes.status = 400 /\ store = storeBefore
        ELSE LET id == DigitsValue(storeReq.param.digits)
             IN  IF id \in DOMAIN storeBefore
                 THEN /\ storeRes.status = 204
                      /\ store = MapDelete(storeBefore, id)
                 ELSE storeRes.status = 404 /\ store = storeBefore

\* C30: every field the header search box reads from a match (symbol and
\* name) is defined in every item the search endpoint produces, so that
\* submitting navigates to /stock/<symbol of the first match> and each
\* dropdown entry (at most the first 5, in provider order) links to its own
\* symbol.
C30_HeaderFieldsDefined ==
    /\ (searchPc = "responded" /\ searchRes.status = 200) =>
          LET matches  == BestMatches(searchRes.body)
              provided == ProviderMatches(searchQuery, Len(matches))
              shown    == IF Len(matches) < 5 THEN Len(matches) ELSE 5
          IN  /\ \A j \in DOMAIN matches :
                     \A f \in HeaderFields : f \in DOMAIN matches[j]
              /\ DropdownLinks(searchRes.body) =
                     [j \in 1 .. shown |-> "/stock/" \o provided[j].symbol]
    /\ location # "" =>
          \E q \in Queries, n \in 1 .. MaxMatches :
              location = "/stock/" \o ProviderMatches(q, n)[1].symbol

\* C25: when every provider call settles, every request to an endpoint is
\* answered (series, news, search, quote and store requests, on the
\* validation, not-found, synthetic and error paths alike), and an answer
\* once sent is never followed by another.
C25_ExactlyOneResponse ==
    /\ (pc = "quote") ~> (res # NoResponse)
    /\ (newsPc = "awaiting") ~> (newsRes # NoResponse)
    /\ (searchPc # "idle") ~> (searchRes # NoResponse)
    /\ (quotePc = "awaiting") ~> (quoteRes # NoResponse)
    /\ (storePc = "pending") ~> (storeRes # NoResponse)
    /\ [][/\ res # NoResponse => res' = res
          /\ newsRes # NoResponse => newsRes' = newsRes
          /\ searchRes # NoResponse => searchRes' = searchRes
          /\ quoteRes # NoResponse => quoteRes' = quoteRes
          /\ storeRes # NoResponse => storeRes' = storeRes]_vars

C25_Witness ==
    /\ newsPc = "responded" /\ newsRes = DefaultNews
    /\ \A i \in DOMAIN NewsSymbols : search[i].state # "pending"
    /\ Cardinality({i \in DOMAIN NewsSymbols : search[i].state = "rejected"}) >= 2
    /\ \E i \in DOMAIN NewsSymbols : search[i].state = "fulfilled"

====
